---- MODULE Spec2Model ----
(***************************************************************************)
(* The multi-source excerpt index of crates/multi_buffer2: a MultiBuffer   *)
(* owns a MultiBufferSnapshot whose excerpt tree is kept sorted by         *)
(* ExcerptKey and coalesced per source buffer.                             *)
(*                                                                         *)
(* The SumTree is modelled by the sequence of its items in tree order; a   *)
(* cursor over it is the index of its current item (Len + 1 when it is     *)
(* past the last item).  A seek walks the items in order and stops at the  *)
(* first one the target does not lie beyond, which is what the tree        *)
(* descent computes for a tree that is a single leaf.                      *)
(*                                                                         *)
(* The tree is persistent: a tree built from a slice or a suffix of        *)
(* another shares the nodes of these items with it.  Each item carries in  *)
(* `shared` the position, in the snapshot last handed out and still held,  *)
(* of the node it shares with that snapshot (0 when it shares none).       *)
(***************************************************************************)
EXTENDS Integers, Sequences, FiniteSets, TLC

\* Length of the longest source buffer's text (offsets run over 0..MaxOffset).
MaxOffset == 3

\* Total number of ranges handed to insert_excerpts over a run.
MaxInserted == 3

\* Number of edits a source buffer gets over a run (its version runs over
\* 0..MaxVersion).
MaxVersion == 1

\* The source buffers, named by their BufferId; ids compare as the derived
\* Ord of (remote_id, replica_id) does.
BufferIds == {1, 2}

\* Option<Arc<Path>>: None, and the paths Some(1) < Some(2).
NoPath == 0

Paths == {NoPath, 1, 2}

None == <<>>

Some(x) == <<x>>

Min(a, b) == IF a < b THEN a ELSE b

Max(a, b) == IF a > b THEN a ELSE b

----------------------------------------------------------------------------
(* Orderings *)

CmpNat(a, b) == IF a < b THEN "Less" ELSE IF a > b THEN "Greater" ELSE "Equal"

\* Option<Arc<Path>>::cmp: None sorts before Some, paths compare lexically.
CmpPath(a, b) ==
    IF a = NoPath /\ b = NoPath THEN "Equal"
    ELSE IF a = NoPath THEN "Less"
    ELSE IF b = NoPath THEN "Greater"
    ELSE CmpNat(a, b)

ThenWith(o, p) == IF o = "Equal" THEN p ELSE o

IsGe(o) == o # "Less"

\* Mutant of Intersects: keys of different buffers intersect as well.
IntersectsAnyBuffer(a, b) ==
    /\ a.range.start <= b.range.end
    /\ b.range.start <= a.range.end

\* Mutant of Intersects: keys under different paths do not intersect.
IntersectsSamePath(a, b) ==
    /\ a.path = b.path
    /\ a.buffer_id = b.buffer_id
    /\ a.range.start <= b.range.end
    /\ b.range.start <= a.range.end

\* Mutant of Intersects: ranges that only touch do not intersect.
IntersectsOverlapOnly(a, b) ==
    /\ a.buffer_id = b.buffer_id
    /\ a.range.start < b.range.end
    /\ b.range.start < a.range.end

\* ExcerptKey::intersects
Intersects(a, b) ==
    /\ a.buffer_id = b.buffer_id
    /\ a.range.start <= b.range.end
    /\ b.range.start <= a.range.end

\* Mutant of CmpKey: of two keys that differ in their end only, the one
\* with the smaller end sorts first.
CmpKeyEndAscending(a, b) ==
    ThenWith(CmpPath(a.path, b.path),
    ThenWith(CmpNat(a.buffer_id, b.buffer_id),
    ThenWith(CmpNat(a.range.start, b.range.start),
             CmpNat(a.range.end, b.range.end))))

\* Ord for ExcerptKey
CmpKey(a, b) ==
    ThenWith(CmpPath(a.path, b.path),
    ThenWith(CmpNat(a.buffer_id, b.buffer_id),
    ThenWith(CmpNat(a.range.start, b.range.start),
             CmpNat(b.range.end, a.range.end))))

\* Ord for Option<ExcerptKey> (derived): None < Some(_).
CmpOptKey(a, b) ==
    IF a = None /\ b = None THEN "Equal"
    ELSE IF a = None THEN "Less"
    ELSE IF b = None THEN "Greater"
    ELSE CmpKey(a[1], b[1])

\* Mutant of SeekCmp: an offset at the end of the range lies beyond it.
SeekCmpEndExclusive(target, cursor_location) ==
    IF cursor_location # None
    THEN LET loc == cursor_location[1] IN
         ThenWith(CmpPath(target.path, loc.path),
         ThenWith(CmpNat(target.buffer_id, loc.buffer_id),
                  IF CmpNat(target.offset, loc.range.start) = "Less" THEN "Less"
                  ELSE IF CmpNat(target.offset, loc.range.end) # "Less" THEN "Greater"
                  ELSE "Equal"))
    ELSE "Greater"

\* SeekTarget<ExcerptSummary, Option<ExcerptKey>> for ExcerptOffset
SeekCmp(target, cursor_location) ==
    IF cursor_location # None
    THEN LET loc == cursor_location[1] IN
         ThenWith(CmpPath(target.path, loc.path),
         ThenWith(CmpNat(target.buffer_id, loc.buffer_id),
                  IF CmpNat(target.offset, loc.range.start) = "Less" THEN "Less"
                  ELSE IF CmpNat(target.offset, loc.range.end) = "Greater" THEN "Greater"
                  ELSE "Equal"))
    ELSE "Greater"

ExcerptOffset(path, buffer_id, offset) ==
    [path |-> path, buffer_id |-> buffer_id, offset |-> offset]

----------------------------------------------------------------------------
(* The SumTree and its cursor *)

\* cursor.item(), mapped to its key as the call sites do.
ItemKey(tree, cursor) == IF cursor <= Len(tree) THEN Some(tree[cursor].key) ELSE None

\* The cursor's forward seek: items the target lies beyond (or equals, with
\* Bias::Right) are passed; the cursor stops at the first other item.
RECURSIVE SeekFrom(_, _, _, _)
SeekFrom(tree, cursor, target, bias) ==
    IF cursor > Len(tree) THEN cursor
    ELSE LET c == SeekCmp(target, Some(tree[cursor].key)) IN
         IF c = "Greater" \/ (c = "Equal" /\ bias = "Right")
         THEN SeekFrom(tree, cursor + 1, target, bias)
         ELSE cursor

\* cursor.slice(target, bias): the items passed, and the cursor after them.
Slice(tree, cursor, target, bias) ==
    LET to == SeekFrom(tree, cursor, target, bias) IN
    [tree |-> SubSeq(tree, cursor, to - 1), cursor |-> to]

\* cursor.seek(target, bias): repositions from the start of the tree.
Seek(tree, target, bias) == SeekFrom(tree, 1, target, bias)

\* cursor.suffix()
Suffix(tree, cursor) == SubSeq(tree, cursor, Len(tree))

\* The debug_assert of the Option<ExcerptKey> dimension, over a whole
\* traversal of the tree: no item's key is below the position before it.
DimensionAssertHolds(tree) ==
    \A i \in 1..Len(tree) :
        IsGe(CmpOptKey(Some(tree[i].key), IF i = 1 THEN None ELSE Some(tree[i - 1].key)))

----------------------------------------------------------------------------
(* Source buffers *)

\* Buffer::snapshot()
BufferSnapshot(buffer_id, buffer) ==
    [buffer_id |-> buffer_id, path |-> buffer.path,
     version |-> buffer.version, len |-> buffer.len]

\* text_summary_for_range: the length of the text of the range.
TextSummaryForRange(snapshot, range) == range.end - range.start

\* text_for_range: the characters of the snapshot in the range; an unedited
\* buffer holds a distinct character at every offset.
RECURSIVE TextForRange(_, _, _)
TextForRange(snapshot, start, end) ==
    IF start >= end THEN <<>>
    ELSE <<<<snapshot.buffer_id, snapshot.version, start>>>>
         \o TextForRange(snapshot, start + 1, end)

----------------------------------------------------------------------------
(* State *)

VARIABLES
    live,              \* the source buffers, owned outside the MultiBuffer
    excerpts,          \* self.snapshot.excerpts, in tree order
    buffer_snapshots,  \* self.snapshot.buffer_snapshots
    buffers,           \* self.buffers
    panics,            \* the assertions that have failed so far
    returned,          \* the snapshot last handed out and still held, as its holder reads it
    returned_as,       \* history: that snapshot as it was when snapshot() returned it
    probe,             \* the last comparison made on its own, with its operands and result
    inserted,          \* history: every range handed to insert_excerpts
    last_call          \* history: which call came last, and what kind of batch it was given

vars == <<live, excerpts, buffer_snapshots, buffers, panics, returned, returned_as,
          probe, inserted, last_call>>

\* Buffer 1 holds MaxOffset characters, every other buffer a single one.
BufferLen(b) == IF b = 1 THEN MaxOffset ELSE 1

Ranges(len) == {r \in [start : 0..len, end : 0..len] : r.start <= r.end}

\* One element of the iterable handed to insert_excerpts: a buffer and a
\* range of offsets of its text.
Items == UNION {[buffer : {b}, range : Ranges(BufferLen(b))] : b \in BufferIds}

\* The batches of n elements.
Batches(n) == [1..n -> Items]

----------------------------------------------------------------------------
(* push_excerpt *)

\* Mutant of UpdateLast: the last node is written where it is, shared or not.
UpdateLastInPlace(tree, last_excerpt) ==
    IF tree = <<>> THEN tree ELSE [tree EXCEPT ![Len(tree)] = last_excerpt]

\* SumTree::update_last, given what the closure leaves in the last item: a
\* shared node is not written; the tree gets a copy of it, which it shares
\* with nothing.
UpdateLast(tree, last_excerpt) ==
    IF tree = <<>> THEN tree
    ELSE [tree EXCEPT ![Len(tree)] = [last_excerpt EXCEPT !.shared = 0]]

\* SumTree::push: the item gets a node of its own.
Push(tree, excerpt) == Append(tree, [excerpt EXCEPT !.shared = 0])

\* Mutant of PushExcerpt: the merged excerpt keeps the text summary it had.
PushExcerptStaleSummary(tree, excerpt) ==
    IF tree # <<>> /\ Intersects(tree[Len(tree)].key, excerpt.key)
    THEN LET last_excerpt == tree[Len(tree)]
             range == [start |-> Min(last_excerpt.key.range.start, excerpt.key.range.start),
                       end |-> Max(last_excerpt.key.range.end, excerpt.key.range.end)]
         IN UpdateLast(tree, [last_excerpt EXCEPT !.key.range = range])
    ELSE Push(IF tree = <<>> THEN tree ELSE UpdateLast(tree, tree[Len(tree)]), excerpt)

\* Mutant of PushExcerpt: the excerpt is pushed without looking at the last one.
PushExcerptNoMerge(tree, excerpt) == Push(tree, excerpt)

PushExcerpt(tree, excerpt) ==
    IF tree # <<>> /\ Intersects(tree[Len(tree)].key, excerpt.key)
    THEN LET last_excerpt == tree[Len(tree)]
             range == [start |-> Min(last_excerpt.key.range.start, excerpt.key.range.start),
                       end |-> Max(last_excerpt.key.range.end, excerpt.key.range.end)]
         IN UpdateLast(tree,
                [last_excerpt EXCEPT
                    !.key.range = range,
                    !.text_summary = TextSummaryForRange(last_excerpt.snapshot, range)])
    ELSE Push(IF tree = <<>> THEN tree ELSE UpdateLast(tree, tree[Len(tree)]), excerpt)

----------------------------------------------------------------------------
(* insert_excerpts *)

\* The filter_map: empty ranges are dropped, the others get a key under the
\* buffer's current path.  The buffer handle of a pair is the buffer its
\* key's buffer_id names.
\* Mutant of FilterMap: every range gets a key, the empty ones too.
FilterMapKeepEmpty(bufs, batch) ==
    [i \in 1..Len(batch) |->
        [path |-> bufs[batch[i].buffer].path,
         buffer_id |-> batch[i].buffer,
         range |-> batch[i].range]]

RECURSIVE FilterMap(_, _)
FilterMap(bufs, batch) ==
    IF batch = <<>> THEN <<>>
    ELSE LET item == Head(batch)
             rest == FilterMap(bufs, Tail(batch))
         IN IF ~(item.range.start < item.range.end) THEN rest
            ELSE <<[path |-> bufs[item.buffer].path,
                    buffer_id |-> item.buffer,
                    range |-> item.range]>> \o rest

RECURSIVE InsertByKey(_, _)
InsertByKey(sorted, key) ==
    IF sorted = <<>> THEN <<key>>
    ELSE IF CmpKey(key, Head(sorted)) = "Less" THEN <<key>> \o sorted
    ELSE <<Head(sorted)>> \o InsertByKey(Tail(sorted), key)

\* Mutant of SortByKey: the batch is left in the caller's order.
SortByKeyUnsorted(keys) == keys

\* sort_unstable_by_key: keys that compare Equal are equal, so the result
\* does not depend on how the sort treats ties.
RECURSIVE SortByKey(_)
SortByKey(keys) ==
    IF keys = <<>> THEN <<>>
    ELSE InsertByKey(SortByKey(SubSeq(keys, 1, Len(keys) - 1)), keys[Len(keys)])

\* dedup_by: key_a is the later element, key_b the one kept before it.
RECURSIVE DedupBy(_, _)
DedupBy(kept, rest) ==
    IF rest = <<>> THEN kept
    ELSE LET key_a == Head(rest) IN
         IF kept # <<>> /\ Intersects(key_a, kept[Len(kept)])
         THEN LET key_b == kept[Len(kept)]
                  range == [start |-> Min(key_a.range.start, key_b.range.start),
                            end |-> Max(key_a.range.end, key_b.range.end)]
              IN DedupBy([kept EXCEPT ![Len(kept)].range = range], Tail(rest))
         ELSE DedupBy(Append(kept, key_a), Tail(rest))

NewExcerpts(bufs, batch) == DedupBy(<<>>, SortByKey(FilterMap(bufs, batch)))

\* The excerpt built for a new key from the buffer as it is now.
NewExcerpt(bufs, key) ==
    LET snapshot == BufferSnapshot(key.buffer_id, bufs[key.buffer_id]) IN
    [key |-> key, snapshot |-> snapshot,
     text_summary |-> TextSummaryForRange(snapshot, key.range),
     shared |-> 0]

\* The slice taken before the loop, when the batch has a first key.
FirstSlice(old, new_excerpts) ==
    IF new_excerpts = <<>> THEN [tree |-> <<>>, cursor |-> 1]
    ELSE LET key == new_excerpts[1] IN
         Slice(old, 1, ExcerptOffset(key.path, key.buffer_id, key.range.start), "Left")

\* Lines 94-105: when the key starts at or after the cursor's item, the old
\* excerpts before the key's start are copied, and the old excerpt at its
\* start is pushed and passed if it intersects the key.
CopyBeforeStart(old, key, cursor, new_tree) ==
    LET start_offset == ExcerptOffset(key.path, key.buffer_id, key.range.start) IN
    IF IsGe(SeekCmp(start_offset, ItemKey(old, cursor)))
    THEN LET s == Slice(old, cursor, start_offset, "Left") IN
         IF s.cursor <= Len(old) /\ Intersects(old[s.cursor].key, key)
         THEN [tree |-> PushExcerpt(new_tree \o s.tree, old[s.cursor]),
               cursor |-> s.cursor + 1]
         ELSE [tree |-> new_tree \o s.tree, cursor |-> s.cursor]
    ELSE [tree |-> new_tree, cursor |-> cursor]

\* Lines 116-127: when the key ends at or after the cursor's item, the
\* cursor seeks the key's end, and the old excerpt there is pushed and
\* passed if it intersects the key.
FoldAtEnd(old, key, cursor, new_tree) ==
    LET end_offset == ExcerptOffset(key.path, key.buffer_id, key.range.end) IN
    IF IsGe(SeekCmp(end_offset, ItemKey(old, cursor)))
    THEN LET to == Seek(old, end_offset, "Left") IN
         IF to <= Len(old) /\ Intersects(old[to].key, key)
         THEN [tree |-> PushExcerpt(new_tree, old[to]), cursor |-> to + 1]
         ELSE [tree |-> new_tree, cursor |-> to]
    ELSE [tree |-> new_tree, cursor |-> cursor]

\* One turn of the loop over the new keys.
MergeKey(bufs, old, key, at) ==
    LET before == CopyBeforeStart(old, key, at.cursor, at.tree) IN
    FoldAtEnd(old, key, before.cursor, PushExcerpt(before.tree, NewExcerpt(bufs, key)))

\* The loop over the new keys: one pass of a cursor over the old tree.
RECURSIVE MergePass(_, _, _, _, _)
MergePass(bufs, old, new_excerpts, i, at) ==
    IF i > Len(new_excerpts) THEN at
    ELSE MergePass(bufs, old, new_excerpts, i + 1, MergeKey(bufs, old, new_excerpts[i], at))

\* Mutant of InsertedTree: the rest of the old tree is not appended.
InsertedTreeNoSuffix(bufs, old, batch) ==
    LET new_excerpts == NewExcerpts(bufs, batch)
    IN MergePass(bufs, old, new_excerpts, 1, FirstSlice(old, new_excerpts)).tree

\* The tree insert_excerpts installs, from the tree sync left.
InsertedTree(bufs, old, batch) ==
    LET new_excerpts == NewExcerpts(bufs, batch)
        pass == MergePass(bufs, old, new_excerpts, 1, FirstSlice(old, new_excerpts))
    IN pass.tree \o Suffix(old, pass.cursor)

----------------------------------------------------------------------------
(* check_invariants *)

CheckInvariants(tree) ==
    \A i \in 2..Len(tree) : ~Intersects(tree[i].key, tree[i - 1].key)

----------------------------------------------------------------------------
(* apply_renames *)

\* Mutant of DrainBuffer: the cursor passes every item that is left.
DrainBufferToEnd(old, cursor, buffer_id) == Len(old) + 1

\* The while loop: the cursor passes the items of the renamed buffer (they
\* are pushed to renamed_excerpts, which nothing reads afterwards).
RECURSIVE DrainBuffer(_, _, _)
DrainBuffer(old, cursor, buffer_id) ==
    IF cursor <= Len(old) /\ old[cursor].key.buffer_id = buffer_id
    THEN DrainBuffer(old, cursor + 1, buffer_id)
    ELSE cursor

RECURSIVE RenamePass(_, _, _, _, _)
RenamePass(old, renames, i, cursor, new_tree) ==
    IF i > Len(renames) THEN [tree |-> new_tree, cursor |-> cursor]
    ELSE LET rename == renames[i]
             buffer_start == ExcerptOffset(rename.old_path, rename.buffer_id, 0)
             s == Slice(old, cursor, buffer_start, "Right")
         IN RenamePass(old, renames, i + 1,
                       DrainBuffer(old, s.cursor, rename.buffer_id),
                       new_tree \o s.tree)

ApplyRenames(old, renames) ==
    LET pass == RenamePass(old, renames, 1, 1, <<>>) IN
    pass.tree \o Suffix(old, pass.cursor)

----------------------------------------------------------------------------
(* sync *)

RECURSIVE SortedIds(_)
SortedIds(ids) ==
    IF ids = {} THEN <<>>
    ELSE LET least == CHOOSE x \in ids : \A y \in ids : x <= y IN
         <<least>> \o SortedIds(ids \ {least})

\* Mutant of SyncScan: a buffer that was edited is reported as renamed.
RECURSIVE SyncScanEditAsRename(_, _, _, _, _)
SyncScanEditAsRename(bufs, old_snapshots, ids, renames, snapshots) ==
    IF ids = <<>> THEN [renames |-> renames, snapshots |-> snapshots]
    ELSE LET buffer_id == Head(ids)
             old_snapshot == old_snapshots[buffer_id]
             new_snapshot == BufferSnapshot(buffer_id, bufs[buffers[buffer_id]])
             changed == \/ new_snapshot.path # old_snapshot.path
                        \/ new_snapshot.version # old_snapshot.version
         IN SyncScanEditAsRename(bufs, old_snapshots, Tail(ids),
                     IF changed
                     THEN Append(renames, [buffer_id |-> buffer_id,
                                           old_path |-> old_snapshot.path,
                                           new_path |-> new_snapshot.path])
                     ELSE renames,
                     IF changed
                     THEN [snapshots EXCEPT ![buffer_id] = new_snapshot]
                     ELSE snapshots)

\* The loop over the cached buffer snapshots, in BufferId order: the renames
\* found and the cache with the changed buffers' snapshots replaced.
RECURSIVE SyncScan(_, _, _, _, _)
SyncScan(bufs, old_snapshots, ids, renames, snapshots) ==
    IF ids = <<>> THEN [renames |-> renames, snapshots |-> snapshots]
    ELSE LET buffer_id == Head(ids)
             old_snapshot == old_snapshots[buffer_id]
             new_snapshot == BufferSnapshot(buffer_id, bufs[buffers[buffer_id]])
             renamed == new_snapshot.path # old_snapshot.path
             edited == new_snapshot.version # old_snapshot.version
         IN SyncScan(bufs, old_snapshots, Tail(ids),
                     IF renamed
                     THEN Append(renames, [buffer_id |-> buffer_id,
                                           old_path |-> old_snapshot.path,
                                           new_path |-> new_snapshot.path])
                     ELSE renames,
                     IF renamed \/ edited
                     THEN [snapshots EXCEPT ![buffer_id] = new_snapshot]
                     ELSE snapshots)

\* What sync leaves of an excerpt tree and a snapshot cache: the tree, the
\* cache, and the assertions that failed on the way.
SyncOf(old, old_snapshots) ==
    LET scan == SyncScan(live, old_snapshots, SortedIds(DOMAIN old_snapshots),
                         <<>>, old_snapshots)
        tree == ApplyRenames(old, scan.renames)
    IN [excerpts |-> tree,
        buffer_snapshots |-> scan.snapshots,
        panics |-> (IF DimensionAssertHolds(old) THEN {} ELSE {"add_summary"})
                   \cup (IF CheckInvariants(tree) THEN {} ELSE {"check_invariants"})]

Sync == SyncOf(excerpts, buffer_snapshots)

----------------------------------------------------------------------------
(* History *)

ItemLess(a, b) ==
    \/ a.buffer < b.buffer
    \/ a.buffer = b.buffer /\ a.range.start < b.range.start
    \/ a.buffer = b.buffer /\ a.range.start = b.range.start /\ a.range.end < b.range.end

RECURSIVE InsertItem(_, _)
InsertItem(sorted, item) ==
    IF sorted = <<>> THEN <<item>>
    ELSE IF ItemLess(item, Head(sorted)) THEN <<item>> \o sorted
    ELSE <<Head(sorted)>> \o InsertItem(Tail(sorted), item)

\* Every range handed to insert_excerpts so far, by buffer, start and end.
RECURSIVE Record(_, _)
Record(history, batch) ==
    IF batch = <<>> THEN history
    ELSE Record(InsertItem(history, Head(batch)), Tail(batch))

\* An existing excerpt of the item's buffer holds the whole range.
IsCovered(tree, item) ==
    \E i \in 1..Len(tree) :
        /\ tree[i].key.buffer_id = item.buffer
        /\ tree[i].key.range.start <= item.range.start
        /\ item.range.end <= tree[i].key.range.end

NonEmpty(batch) == {i \in 1..Len(batch) : batch[i].range.start < batch[i].range.end}

\* What a batch is, against the tree it is inserted into: "empty" when no
\* range of it is non-empty, "covered" when every non-empty range of it lies
\* within an existing excerpt of its buffer, "other" otherwise.
CallKind(tree, batch) ==
    IF NonEmpty(batch) = {} THEN "empty"
    ELSE IF \A i \in NonEmpty(batch) : IsCovered(tree, batch[i]) THEN "covered"
    ELSE "other"

----------------------------------------------------------------------------
(* Operations *)

\* MultiBufferSnapshot::len: the text length of the tree's summary.
RECURSIVE SummaryTextLen(_)
SummaryTextLen(tree) ==
    IF tree = <<>> THEN 0 ELSE Head(tree).text_summary + SummaryTextLen(Tail(tree))

\* The items of a tree whose nodes are shared with nothing that is held.
Unshared(tree) == [i \in 1..Len(tree) |-> [tree[i] EXCEPT !.shared = 0]]

\* What the holder of the snapshot handed out reads once `tree` has been
\* built: a node of the snapshot that `tree` shares holds what `tree` has
\* in it.
SeenByHolder(held, tree) ==
    IF held = None THEN None
    ELSE Some([held[1] EXCEPT !.excerpts =
                  [k \in 1..Len(held[1].excerpts) |->
                      IF \E i \in 1..Len(tree) : tree[i].shared = k
                      THEN [tree[CHOOSE i \in 1..Len(tree) : tree[i].shared = k]
                               EXCEPT !.shared = 0]
                      ELSE held[1].excerpts[k]]])

\* Stands in the history for a range that is counted and not recorded.
Unrecorded == [buffer |-> 1, range |-> [start |-> 0, end |-> 0]]

Init ==
    /\ live \in {[b \in BufferIds |-> [path |-> NoPath, version |-> 0, len |-> BufferLen(b)]],
                 [b \in BufferIds |-> [path |-> 3 - b, version |-> 0, len |-> BufferLen(b)]]}
    /\ excerpts = <<>>
    /\ buffer_snapshots = <<>>
    /\ buffers = <<>>
    /\ panics = {}
    /\ returned = None
    /\ returned_as = None
    /\ probe = None
    /\ inserted = <<>>
    /\ last_call = "none"

InsertExcerpts(batch) ==
    /\ \A i \in 1..Len(batch) : batch[i].range.end <= live[batch[i].buffer].len
    /\ \E synced \in {Sync} :
       \E new_tree \in {InsertedTree(live, synced.excerpts, batch)} :
          /\ excerpts' = new_tree
          /\ returned' = SeenByHolder(returned, new_tree)
          /\ buffer_snapshots' = synced.buffer_snapshots
          /\ panics' = panics \cup synced.panics
                \cup (IF DimensionAssertHolds(synced.excerpts) THEN {} ELSE {"add_summary"})
                \cup (IF CheckInvariants(new_tree) THEN {} ELSE {"check_invariants"})
    /\ UNCHANGED <<live, buffers, returned_as, probe>>

\* A call of insert_excerpts of which the history is kept.
InsertRecorded(batch) ==
    /\ InsertExcerpts(batch)
    /\ inserted' = Record(inserted, batch)
    /\ last_call' = CallKind(excerpts, batch)

\* A call of insert_excerpts of which only the number of ranges is kept.
InsertCounted(batch) ==
    /\ InsertExcerpts(batch)
    /\ inserted' = inserted \o [i \in 1..Len(batch) |-> Unrecorded]
    /\ last_call' = "insert_excerpts"

\* snapshot(); `held` tells whether the caller keeps the value returned (it
\* then lets go of the one it held before) or drops it at once.
Snapshot(held) ==
    /\ \E synced \in {Sync} :
       /\ buffer_snapshots' = synced.buffer_snapshots
       /\ panics' = panics \cup synced.panics
       /\ IF held
          THEN /\ excerpts' = [i \in 1..Len(synced.excerpts) |->
                                 [synced.excerpts[i] EXCEPT !.shared = i]]
               /\ returned' = Some([excerpts |-> Unshared(synced.excerpts),
                                    buffer_snapshots |-> synced.buffer_snapshots])
               /\ returned_as' = returned'
          ELSE /\ excerpts' = synced.excerpts
               /\ returned' = SeenByHolder(returned, synced.excerpts)
               /\ UNCHANGED returned_as
    /\ UNCHANGED <<live, buffers, probe, inserted, last_call>>

Next ==
    \/ \E n \in 0..(MaxInserted - Len(inserted)) :
          \E batch \in Batches(n) : InsertRecorded(batch)
    \/ Snapshot(FALSE)

Spec == Init /\ [][Next]_vars

\* A source buffer's file is moved, outside the MultiBuffer; the text and
\* its version are not touched.
ExternalRename(b, path) ==
    /\ path # live[b].path
    /\ live' = [live EXCEPT ![b].path = path]
    /\ UNCHANGED <<excerpts, buffer_snapshots, buffers, panics, returned, returned_as,
                   probe, inserted, last_call>>

NextExternal ==
    \/ \E n \in 0..(MaxInserted - 1 - Len(inserted)) :
          \E batch \in Batches(n) : InsertCounted(batch)
    \/ Snapshot(FALSE)
    \/ \E b \in BufferIds, path \in Paths : ExternalRename(b, path)

\* The public operations interleaved with external renames; of the ranges
\* inserted only the number is kept, and a run inserts MaxInserted - 1 of
\* them at most.
SpecExternal == Init /\ [][NextExternal]_vars

\* The renames sync would report for the buffers of `ids` moved to the
\* paths `to`: in BufferId order, each from the buffer's path so far.
RenamesOf(ids, to) ==
    LET order == SortedIds(ids) IN
    [i \in 1..Len(order) |->
        [buffer_id |-> order[i], old_path |-> live[order[i]].path, new_path |-> to[order[i]]]]

\* apply_renames on its own: the buffers of `ids` have been moved to the
\* paths `to`, and apply_renames is handed these renames.
ApplyRenamesCall(ids, to) ==
    /\ \A b \in ids : to[b] # live[b].path
    /\ live' = [b \in BufferIds |->
                  IF b \in ids THEN [live[b] EXCEPT !.path = to[b]] ELSE live[b]]
    /\ excerpts' = ApplyRenames(excerpts, RenamesOf(ids, to))
    /\ returned' = SeenByHolder(returned, excerpts')
    /\ panics' = panics \cup (IF DimensionAssertHolds(excerpts) THEN {} ELSE {"add_summary"})
    /\ last_call' = "apply_renames"
    /\ UNCHANGED <<buffer_snapshots, buffers, returned_as, probe, inserted>>

NextRenames ==
    \/ \E n \in 0..(MaxInserted - 1 - Len(inserted)) :
          \E batch \in Batches(n) : InsertCounted(batch)
    \/ \E ids \in SUBSET BufferIds : \E to \in [ids -> Paths] : ApplyRenamesCall(ids, to)

\* insert_excerpts calls interleaved with calls of apply_renames.
SpecRenames == Init /\ [][NextRenames]_vars

NextExternalRecorded ==
    \/ \E n \in 0..(MaxInserted - 1 - Len(inserted)) :
          \E batch \in Batches(n) : InsertRecorded(batch)
    \/ Snapshot(FALSE)
    \/ \E b \in BufferIds, path \in Paths : ExternalRename(b, path)

\* The public operations interleaved with external renames, the history of
\* the ranges inserted kept in full.
SpecExternalRecorded == Init /\ [][NextExternalRecorded]_vars

\* The text of a source buffer that has excerpts in the index is edited,
\* outside the MultiBuffer: its version advances; its path and its length
\* stay.
ExternalEdit(b) ==
    /\ live[b].version < MaxVersion
    /\ \E i \in 1..Len(excerpts) : excerpts[i].key.buffer_id = b
    /\ live' = [live EXCEPT ![b].version = @ + 1]
    /\ UNCHANGED <<excerpts, buffer_snapshots, buffers, panics, returned, returned_as,
                   probe, inserted, last_call>>

\* A MultiBuffer in which the source buffers are registered, as insertion
\* is specified to leave them: each has its handle in `buffers` and the
\* snapshot of its first state in the snapshot cache.
InitRegistered ==
    /\ live \in {[b \in BufferIds |-> [path |-> NoPath, version |-> 0, len |-> BufferLen(b)]],
                 [b \in BufferIds |-> [path |-> 3 - b, version |-> 0, len |-> BufferLen(b)]]}
    /\ excerpts = <<>>
    /\ buffers = [b \in BufferIds |-> b]
    /\ buffer_snapshots = [b \in BufferIds |-> BufferSnapshot(b, live[b])]
    /\ panics = {}
    /\ returned = None
    /\ returned_as = None
    /\ probe = None
    /\ inserted = <<>>
    /\ last_call = "none"

NextSync ==
    \/ \E n \in 0..(MaxInserted - 1 - Len(inserted)) :
          \E batch \in Batches(n) : InsertCounted(batch)
    \/ \E held \in BOOLEAN : Snapshot(held)
    \/ \E b \in BufferIds : ExternalEdit(b)

\* The public operations on registered buffers, interleaved with edits of
\* the buffers' text.
SpecSync == InitRegistered /\ [][NextSync]_vars

\* The text of a source buffer that has excerpts in the index is edited,
\* outside the MultiBuffer, to another length: its version advances.
ExternalResize(b, len) ==
    /\ live[b].version < MaxVersion
    /\ len # live[b].len
    /\ \E i \in 1..Len(excerpts) : excerpts[i].key.buffer_id = b
    /\ live' = [live EXCEPT ![b].version = @ + 1, ![b].len = len]
    /\ UNCHANGED <<excerpts, buffer_snapshots, buffers, panics, returned, returned_as,
                   probe, inserted, last_call>>

\* The elements a caller may hand to insert_excerpts when the buffers'
\* lengths change: a buffer and a range of offsets up to the largest length.
ResizedItems == [buffer : BufferIds, range : Ranges(MaxOffset)]

NextResize ==
    \/ \E n \in 0..(MaxInserted - 1 - Len(inserted)) :
          \E batch \in [1..n -> ResizedItems] : InsertCounted(batch)
    \/ Snapshot(FALSE)
    \/ \E b \in BufferIds : \E len \in 0..MaxOffset : ExternalResize(b, len)

\* The public operations, interleaved with edits that change the length of
\* the buffers' text.
SpecResize == Init /\ [][NextResize]_vars

\* The keys and the seek targets over the buffers' offsets.
Keys == [path : Paths, buffer_id : BufferIds, range : Ranges(MaxOffset)]

Offsets == [path : Paths, buffer_id : BufferIds, offset : 0..MaxOffset]

\* ExcerptKey::cmp, ExcerptKey::intersects and ExcerptOffset::cmp called on
\* their own, once, on operands of the caller's choice.
CompareKeys ==
    /\ probe = None
    /\ \E a, b \in Keys :
          probe' = Some([call |-> "cmp", a |-> a, b |-> b, result |-> CmpKey(a, b)])
    /\ UNCHANGED <<live, excerpts, buffer_snapshots, buffers, panics, returned, returned_as,
                   inserted, last_call>>

KeysIntersect ==
    /\ probe = None
    /\ \E a, b \in Keys :
          probe' = Some([call |-> "intersects", a |-> a, b |-> b,
                         result |-> Intersects(a, b)])
    /\ UNCHANGED <<live, excerpts, buffer_snapshots, buffers, panics, returned, returned_as,
                   inserted, last_call>>

SeekCompare ==
    /\ probe = None
    /\ \E target \in Offsets :
          \E cursor_location \in {None} \cup {Some(key) : key \in Keys} :
             probe' = Some([call |-> "seek_cmp", a |-> target, b |-> cursor_location,
                            result |-> SeekCmp(target, cursor_location)])
    /\ UNCHANGED <<live, excerpts, buffer_snapshots, buffers, panics, returned, returned_as,
                   inserted, last_call>>

NextCompare ==
    \/ CompareKeys
    \/ KeysIntersect
    \/ SeekCompare

\* The comparisons of keys and seek targets, each on its own.
SpecCompare == Init /\ [][NextCompare]_vars

NextHeld ==
    \/ \E n \in 0..(MaxInserted - 1 - Len(inserted)) :
          \E batch \in Batches(n) : InsertCounted(batch)
    \/ \E held \in BOOLEAN : Snapshot(held)
    \/ \E b \in BufferIds, path \in Paths : ExternalRename(b, path)

\* The public operations and external renames, with a caller that holds on
\* to snapshots.
SpecHeld == Init /\ [][NextHeld]_vars

----------------------------------------------------------------------------
(* Observations *)

KeysOf(tree) == [i \in 1..Len(tree) |-> tree[i].key]

RangesOf(tree) == [i \in 1..Len(tree) |-> tree[i].key.range]

\* MultiBufferSnapshot::text
RECURSIVE Text(_)
Text(tree) ==
    IF tree = <<>> THEN <<>>
    ELSE <<"\n">> \o TextForRange(tree[1].snapshot, tree[1].key.range.start,
                                  tree[1].key.range.end)
         \o Text(Tail(tree))

\* The history is about one buffer only.
OnlyBuffer(b) == \A i \in 1..Len(inserted) : inserted[i].buffer = b

\* tests::test_insert_random_excerpts: the ranges it expects, from all the
\* ranges inserted sorted by (start, end).
RECURSIVE ExpectedDedup(_, _)
ExpectedDedup(kept, rest) ==
    IF rest = <<>> THEN kept
    ELSE LET a == Head(rest) IN
         IF kept # <<>> /\ a.start <= kept[Len(kept)].end /\ kept[Len(kept)].start <= a.end
         THEN LET b == kept[Len(kept)] IN
              ExpectedDedup([kept EXCEPT ![Len(kept)] =
                                [start |-> Min(a.start, b.start), end |-> Max(a.end, b.end)]],
                            Tail(rest))
         ELSE ExpectedDedup(Append(kept, a), Tail(rest))

ExpectedRanges ==
    SelectSeq(ExpectedDedup(<<>>, [i \in 1..Len(inserted) |-> inserted[i].range]),
              LAMBDA r : r.start < r.end)

RECURSIVE ExpectedText(_, _)
ExpectedText(b, ranges) ==
    IF ranges = <<>> THEN <<>>
    ELSE <<"\n">> \o TextForRange(BufferSnapshot(b, live[b]), ranges[1].start, ranges[1].end)
         \o ExpectedText(b, Tail(ranges))

\* The offsets of buffer b's text that some inserted range holds.
Covered(b) ==
    {c \in 0..(MaxOffset - 1) :
        \E i \in 1..Len(inserted) :
            /\ inserted[i].buffer = b
            /\ inserted[i].range.start <= c
            /\ c < inserted[i].range.end}

\* The maximal runs of consecutive offsets of a set, from offset `from` on.
RECURSIVE RunEnd(_, _)
RunEnd(cells, c) == IF c \in cells THEN RunEnd(cells, c + 1) ELSE c

RECURSIVE Runs(_, _)
Runs(cells, from) ==
    IF from >= MaxOffset THEN <<>>
    ELSE IF from \in cells
         THEN <<[start |-> from, end |-> RunEnd(cells, from)]>>
              \o Runs(cells, RunEnd(cells, from))
         ELSE Runs(cells, from + 1)

----------------------------------------------------------------------------
(* Claims *)

\* C1 (disjointness): after any sequence of insert_excerpts and snapshot
\* calls no two consecutive excerpts of the tree have intersecting keys, and
\* the assertion of check_invariants has never failed.
C1_Disjoint ==
    /\ \A i \in 2..Len(excerpts) : ~Intersects(excerpts[i].key, excerpts[i - 1].key)
    /\ "check_invariants" \notin panics

\* C1's case: the history holds as many ranges as a run may insert, some of
\* them merged away, and two excerpts of one buffer are next to each other.
C1_Witness ==
    /\ Len(inserted) = MaxInserted
    /\ \E i \in 2..Len(excerpts) : excerpts[i].key.buffer_id = excerpts[i - 1].key.buffer_id
    /\ Len(excerpts) < Len(FilterMap(live, inserted))

\* C2 (order): the excerpts are strictly increasing in ExcerptKey order, and
\* the debug_assert of the max_key dimension has never failed.
C2_Ordered ==
    /\ \A i \in 2..Len(excerpts) : CmpKey(excerpts[i - 1].key, excerpts[i].key) = "Less"
    /\ "add_summary" \notin panics

\* C2's case: excerpts of both buffers, the buffer with the larger id first
\* because its path sorts first, and two excerpts of one buffer in order.
C2_Witness ==
    /\ Len(excerpts) = 3
    /\ excerpts[1].key.buffer_id = 2
    /\ excerpts[2].key.buffer_id = 1
    /\ excerpts[3].key.buffer_id = 1

\* C3 (union equivalence): when every inserted range is of the same buffer,
\* the excerpt ranges are the inserted ranges sorted by (start, end), merged
\* where they overlap or touch, the empty ones dropped, and the emitted text
\* is the text of these ranges, each after a separator.
C3_UnionEquivalence ==
    \A b \in BufferIds :
        OnlyBuffer(b) =>
            /\ RangesOf(excerpts) = ExpectedRanges
            /\ \A i \in 1..Len(excerpts) : excerpts[i].key.buffer_id = b
            /\ Text(excerpts) = ExpectedText(b, ExpectedRanges)

\* C3's case: ranges of buffer 1 only, among them an empty one and two that
\* touch, merged into fewer excerpts than ranges.
C3_Witness ==
    /\ OnlyBuffer(1)
    /\ Len(inserted) = MaxInserted
    /\ \E i \in 1..Len(inserted) : inserted[i].range.start = inserted[i].range.end
    /\ \E i, j \in 1..Len(inserted) :
          /\ inserted[i].range.start < inserted[i].range.end
          /\ inserted[i].range.end = inserted[j].range.start
          /\ inserted[j].range.start < inserted[j].range.end
    /\ Len(excerpts) = 1

\* C4 (merge completeness): the excerpt sequence of a buffer is a function
\* of the union of the ranges inserted for it: it is the sequence of the
\* maximal runs of that union, whatever the batches and their order were.
C4_MergeComplete ==
    \A b \in BufferIds :
        OnlyBuffer(b) =>
            LET runs == Runs(Covered(b), 0) IN
            /\ excerpts = [i \in 1..Len(runs) |->
                              NewExcerpt(live, [path |-> live[b].path, buffer_id |-> b,
                                                range |-> runs[i]])]
            /\ Text(excerpts) = ExpectedText(b, runs)

\* C4's case: non-empty ranges of buffer 1, one of them inserted twice,
\* whose union is two runs.
C4_Witness ==
    /\ OnlyBuffer(1)
    /\ Len(inserted) = MaxInserted
    /\ \A i \in 1..Len(inserted) : inserted[i].range.start < inserted[i].range.end
    /\ \E i, j \in 1..Len(inserted) : i # j /\ inserted[i] = inserted[j]
    /\ Len(excerpts) = 2

\* C5 (idempotence): an insert_excerpts call whose non-empty ranges each lie
\* within an existing excerpt of their buffer leaves the excerpt keys and
\* the emitted text as they were; and after any call every non-empty range
\* inserted so far lies within an excerpt, so that repeating a call is such
\* a call.
C5_Idempotent ==
    /\ [][(inserted' # inserted /\ last_call' = "covered") =>
            (KeysOf(excerpts') = KeysOf(excerpts) /\ Text(excerpts') = Text(excerpts))]_vars
    /\ [](\A i \in NonEmpty(inserted) : IsCovered(excerpts, inserted[i]))

\* C5's case: the last call gave ranges that were all covered, one of them
\* the very range an earlier call had inserted, next to another excerpt.
C5_Witness ==
    /\ last_call = "covered"
    /\ Len(excerpts) = 2
    /\ \E i, j \in NonEmpty(inserted) : i # j /\ inserted[i] = inserted[j]

\* C6 (rename preservation): when apply_renames is handed a rename of a
\* buffer, every excerpt of that buffer is in the tree afterwards exactly
\* once, with the same range, snapshot and summary, keyed under the new
\* path, and the tree is in key order.
C6_RenamePreserved ==
    [][\A b \in BufferIds :
          live'[b].path # live[b].path =>
             /\ \A i \in 1..Len(excerpts) :
                   excerpts[i].key.buffer_id = b =>
                      Cardinality({j \in 1..Len(excerpts') :
                                     excerpts'[j] = [excerpts[i] EXCEPT
                                                       !.key.path = live'[b].path]}) = 1
             /\ \A j \in 2..Len(excerpts') :
                   CmpKey(excerpts'[j - 1].key, excerpts'[j].key) = "Less"]_vars

\* C7 (invariant under external renames): the excerpts are strictly ordered
\* by key and no two excerpts of the same buffer intersect, whatever renames
\* happened between the calls.
C7_InvariantUnderRenames ==
    /\ \A i \in 2..Len(excerpts) : CmpKey(excerpts[i - 1].key, excerpts[i].key) = "Less"
    /\ \A i, j \in 1..Len(excerpts) :
          i # j => ~Intersects(excerpts[i].key, excerpts[j].key)

\* C8 (sync guarantee): for every buffer that has an excerpt in the index,
\* the snapshot cache holds an entry whose path is the buffer's current path
\* (stated where no external change happens, so that every state is one
\* that a sync has left).
C8_SyncGuarantee ==
    \A i \in 1..Len(excerpts) :
        LET b == excerpts[i].key.buffer_id IN
        /\ b \in DOMAIN buffer_snapshots
        /\ buffer_snapshots[b].path = live[b].path

\* C9 (implicit registration): every buffer of which a non-empty range was
\* inserted is a key of the buffers map and of the snapshot cache.
C9_Registered ==
    \A i \in NonEmpty(inserted) :
        /\ inserted[i].buffer \in DOMAIN buffers
        /\ inserted[i].buffer \in DOMAIN buffer_snapshots

\* C10 (snapshot immutability): the snapshot a caller holds reads as it did
\* when snapshot() returned it, whatever was called since: the same excerpt
\* sequence and the same len().
C10_SnapshotImmutable ==
    returned # None =>
        /\ returned[1].excerpts = returned_as[1].excerpts
        /\ SummaryTextLen(returned[1].excerpts) = SummaryTextLen(returned_as[1].excerpts)

\* A snapshot is held, and since it was returned an excerpt of the tree has
\* been merged into one that started out in a node shared with it.
C10_Witness ==
    /\ returned # None
    /\ \E k \in 1..Len(returned[1].excerpts) :
          /\ \A i \in 1..Len(excerpts) : excerpts[i].shared # k
          /\ \E i \in 1..Len(excerpts) :
                /\ excerpts[i].key.path = returned[1].excerpts[k].key.path
                /\ excerpts[i].key.buffer_id = returned[1].excerpts[k].key.buffer_id
                /\ excerpts[i].key.range.start = returned[1].excerpts[k].key.range.start
                /\ excerpts[i].key.range.end > returned[1].excerpts[k].key.range.end

\* C11 (empty ranges are dropped): no assertion fails in insert_excerpts,
\* no excerpt of the tree has an empty range, and a call whose ranges are
\* all empty leaves the excerpt sequence as it was.
C11_EmptyDropped ==
    /\ [][((inserted' # inserted \/ last_call' # last_call) /\ last_call' = "empty") =>
            excerpts' = excerpts]_vars
    /\ [](/\ panics = {}
          /\ \A i \in 1..Len(excerpts) :
                excerpts[i].key.range.start < excerpts[i].key.range.end)

\* C11's case: the last call gave empty ranges only, one of them at an
\* offset that no excerpt of the tree holds, and the tree is not empty.
C11_Witness ==
    /\ last_call = "empty"
    /\ excerpts # <<>>
    /\ \E i \in 1..Len(inserted) :
          /\ inserted[i].range.start = inserted[i].range.end
          /\ inserted[i].buffer = 1
          /\ ~IsCovered(excerpts, inserted[i])
          /\ \E j \in 1..Len(excerpts) : excerpts[j].key.buffer_id = 1

\* C12 (len): the len() of the snapshot is the sum, over its excerpts, of
\* the length of the excerpt's range.
C12_LenIsSumOfRanges ==
    SummaryTextLen(excerpts) =
        LET RECURSIVE RangeLens(_)
            RangeLens(tree) ==
                IF tree = <<>> THEN 0
                ELSE Head(tree).key.range.end - Head(tree).key.range.start
                     + RangeLens(Tail(tree))
        IN RangeLens(excerpts)

\* C12's case: the one excerpt of buffer 1 holds the whole text, merged
\* from shorter ranges, next to an excerpt of buffer 2.
C12_Witness ==
    /\ Len(excerpts) = 2
    /\ SummaryTextLen(excerpts) = MaxOffset + 1
    /\ \A i \in 1..Len(inserted) :
          inserted[i].range.end - inserted[i].range.start < MaxOffset

\* The number of non-empty ranges of buffer b in a history.
InsertedOf(history, b) ==
    Cardinality({i \in NonEmpty(history) : history[i].buffer = b})

\* C13 (current path in keys): when insert_excerpts returns, every excerpt
\* of a buffer of which the batch held a non-empty range is keyed under the
\* path the buffer has now, also when the path changed since an earlier
\* insertion.
C13_CurrentPath ==
    [][\A b \in BufferIds :
          InsertedOf(inserted', b) > InsertedOf(inserted, b) =>
             \A i \in 1..Len(excerpts') :
                excerpts'[i].key.buffer_id = b => excerpts'[i].key.path = live[b].path]_vars

\* The buffers a step has moved to another path.
Renamed == {b \in BufferIds : live'[b].path # live[b].path}

\* The invariant of the snapshot: strictly ordered by key, and no two
\* excerpts of one buffer intersect.
IsOrderedAndDisjoint(tree) ==
    /\ \A i \in 2..Len(tree) : CmpKey(tree[i - 1].key, tree[i].key) = "Less"
    /\ \A i, j \in 1..Len(tree) : i # j => ~Intersects(tree[i].key, tree[j].key)

\* C14 (apply_renames drains the whole run): when apply_renames is handed
\* the rename of a buffer on a tree that is strictly ordered and disjoint
\* per buffer, no excerpt of that buffer is keyed under the old path
\* afterwards, an excerpt starting at offset 0 included.
C14_RunDrained ==
    [][IsOrderedAndDisjoint(excerpts) =>
          \A b \in Renamed :
             \A i \in 1..Len(excerpts') :
                ~(/\ excerpts'[i].key.buffer_id = b
                  /\ excerpts'[i].key.path = live[b].path)]_vars

\* The excerpts of a tree that are of none of the buffers of `ids`.
RECURSIVE NotOf(_, _)
NotOf(tree, ids) ==
    IF tree = <<>> THEN <<>>
    ELSE (IF Head(tree).key.buffer_id \in ids THEN <<>> ELSE <<Head(tree)>>)
         \o NotOf(Tail(tree), ids)

Probed(call) == probe # None /\ probe[1].call = call

Reverse(o) == IF o = "Less" THEN "Greater" ELSE IF o = "Greater" THEN "Less" ELSE "Equal"

\* The order of two keys as specified: the first of path (absent before
\* present), buffer_id, range.start (ascending) and range.end (descending)
\* in which they differ decides.
KeyOrder(a, b) ==
    IF a.path # b.path
    THEN (IF a.path = NoPath \/ (b.path # NoPath /\ a.path < b.path) THEN "Less" ELSE "Greater")
    ELSE IF a.buffer_id # b.buffer_id
    THEN (IF a.buffer_id < b.buffer_id THEN "Less" ELSE "Greater")
    ELSE IF a.range.start # b.range.start
    THEN (IF a.range.start < b.range.start THEN "Less" ELSE "Greater")
    ELSE IF a.range.end # b.range.end
    THEN (IF a.range.end > b.range.end THEN "Less" ELSE "Greater")
    ELSE "Equal"

\* C17 (key order): cmp orders two keys by path (absent first), then
\* buffer_id, then start ascending, then end descending; it returns Equal
\* exactly for equal keys, and it is antisymmetric and transitive.
C17_KeyOrder ==
    Probed("cmp") =>
        LET a == probe[1].a
            b == probe[1].b
            result == probe[1].result
        IN /\ result = KeyOrder(a, b)
           /\ (result = "Equal") <=> (a = b)
           /\ CmpKey(b, a) = Reverse(result)
           /\ \A c \in Keys :
                 (result = "Less" /\ CmpKey(b, c) = "Less") => CmpKey(a, c) = "Less"

\* C17's case: two keys that differ in their end only were compared, and
\* the one with the larger end came first.
C17_Witness ==
    /\ Probed("cmp")
    /\ probe[1].a.range.end > probe[1].b.range.end
    /\ [probe[1].a EXCEPT !.range.end = 0] = [probe[1].b EXCEPT !.range.end = 0]
    /\ probe[1].result = "Less"

\* C18 (intersects): intersects holds exactly of two keys of the same
\* buffer with start_a <= end_b and start_b <= end_a, whatever their paths,
\* and it is symmetric.
C18_Intersects ==
    Probed("intersects") =>
        LET a == probe[1].a
            b == probe[1].b
            result == probe[1].result
        IN /\ result = (/\ a.buffer_id = b.buffer_id
                        /\ a.range.start <= b.range.end
                        /\ b.range.start <= a.range.end)
           /\ a.buffer_id # b.buffer_id => ~result
           /\ Intersects(b, a) = result
           /\ \A p, q \in Paths :
                 Intersects([a EXCEPT !.path = p], [b EXCEPT !.path = q]) = result

\* C18's case: two keys of one buffer under different paths, whose ranges
\* touch and do not overlap, were found to intersect.
C18_Witness ==
    /\ Probed("intersects")
    /\ probe[1].a.path # probe[1].b.path
    /\ probe[1].a.range.start < probe[1].a.range.end
    /\ probe[1].a.range.end = probe[1].b.range.start
    /\ probe[1].b.range.start < probe[1].b.range.end
    /\ probe[1].result

\* C19 (seek comparison): against a key the offset compares by path, then
\* by buffer_id, then Less below the range's start, Greater above its end,
\* Equal otherwise, both ends included; against no key it is Greater.
C19_SeekCmp ==
    Probed("seek_cmp") =>
        LET target == probe[1].a
            location == probe[1].b
            result == probe[1].result
        IN IF location = None THEN result = "Greater"
           ELSE LET key == location[1] IN
                IF target.path # key.path
                THEN result = KeyOrder([key EXCEPT !.path = target.path], key)
                ELSE IF target.buffer_id # key.buffer_id
                THEN result = (IF target.buffer_id < key.buffer_id THEN "Less" ELSE "Greater")
                ELSE /\ (result = "Less") <=> (target.offset < key.range.start)
                     /\ (result = "Greater") <=> (target.offset > key.range.end)
                     /\ (result = "Equal") <=>
                           (key.range.start <= target.offset /\ target.offset <= key.range.end)

\* C19's case: an offset was compared with a key of its path and buffer
\* whose non-empty range ends at the offset, and found Equal.
C19_Witness ==
    /\ Probed("seek_cmp")
    /\ probe[1].b # None
    /\ probe[1].a.path = probe[1].b[1].path
    /\ probe[1].a.buffer_id = probe[1].b[1].buffer_id
    /\ probe[1].b[1].range.start < probe[1].b[1].range.end
    /\ probe[1].a.offset = probe[1].b[1].range.end
    /\ probe[1].result = "Equal"

\* The excerpts of buffer b, in the order of the tree.
OfBuffer(tree, b) == SelectSeq(tree, LAMBDA excerpt : excerpt.key.buffer_id = b)

\* The buffers that the ranges of the last call name.
Named ==
    {b \in BufferIds :
        Cardinality({i \in 1..Len(inserted') : inserted'[i].buffer = b})
            > Cardinality({i \in 1..Len(inserted) : inserted[i].buffer = b})}

\* C20 (per-buffer isolation): whatever batches were inserted, the excerpts
\* of each buffer are the maximal runs of the union of the ranges inserted
\* for that buffer, each with that buffer's snapshot and text only; and an
\* insert_excerpts call leaves the excerpts of the buffers it does not name
\* as they were.
C20_BufferIsolation ==
    /\ [][inserted' # inserted => NotOf(excerpts', Named) = NotOf(excerpts, Named)]_vars
    /\ [](\A b \in BufferIds :
            LET runs == Runs(Covered(b), 0) IN
            OfBuffer(excerpts, b) =
                [i \in 1..Len(runs) |->
                    NewExcerpt(live, [path |-> live[b].path, buffer_id |-> b,
                                      range |-> runs[i]])])

\* C20's case: non-empty ranges of both buffers were inserted, those of one
\* buffer merged into one excerpt, and the excerpt of one buffer is followed
\* by the excerpt of the other, whose range overlaps or touches its range.
C20_Witness ==
    /\ Len(inserted) = MaxInserted
    /\ NonEmpty(inserted) = 1..Len(inserted)
    /\ Len(excerpts) = 2
    /\ excerpts[1].key.buffer_id # excerpts[2].key.buffer_id
    /\ excerpts[1].key.range.start <= excerpts[2].key.range.end
    /\ excerpts[2].key.range.start <= excerpts[1].key.range.end

\* C21 (excerpt range within its snapshot): whatever insert_excerpts calls
\* and edits of the buffers' lengths there were, the range of every excerpt
\* ends within the excerpt's own snapshot, and its text_summary is the
\* summary of that snapshot over the range.
C21_RangeWithinSnapshot ==
    \A i \in 1..Len(excerpts) :
        /\ excerpts[i].key.range.end <= excerpts[i].snapshot.len
        /\ excerpts[i].text_summary
              = TextSummaryForRange(excerpts[i].snapshot, excerpts[i].key.range)

====
